---- MODULE Spec2Model ----
(***************************************************************************)
(* Model of the JIT policy engine: the policy store behind the CRUD        *)
(* handlers (internal/httpapi/policies.go, internal/model/hooks.go,        *)
(* internal/policy/validate.go) and the two-layer decision procedure with  *)
(* its predicate cache and audit sink (internal/eval/engine.go).           *)
(*                                                                         *)
(* Texts that the code inspects character by character (resource patterns  *)
(* and resource names) are sequences of one-character strings.  A CEL      *)
(* expression is one of a finite set of texts; the CEL library is        *)
(* modelled by what it does with each of them: parse, resolve the free     *)
(* variables against an environment, evaluate under the request bindings.  *)
(***************************************************************************)
EXTENDS Integers, Sequences, FiniteSets, TLC

\* ------------------------------------------------------------------------
\* Bounds of the model
\* ------------------------------------------------------------------------

\* number of policy rows a store holds at most
MaxStore == 2

\* number of write requests (create, update, delete) a behaviour of Spec makes
MaxWrites == 3

\* ------------------------------------------------------------------------
\* Values
\* ------------------------------------------------------------------------

\* uuid.Nil / a nil *uuid.UUID / a nil *model.Policy
Nil == 0

Range(s) == {s[i] : i \in 1..Len(s)}

\* all the orders in which the elements of the finite set S can be listed
Orderings(S) ==
    {f \in [1..Cardinality(S) -> S] : \A x \in S : \E i \in 1..Cardinality(S) : f[i] = x}

\* resource patterns and resource names
PatEmpty  == <<>>
PatStar   == <<"*">>
PatWide   == <<"b", "/", "*">>
PatNarrow == <<"b", "/", "c", "/", "*">>
PatOne    == <<"b", "/", "c", "/", "?">>
PatBad    == <<"[">>
ResX      == <<"b", "/", "c", "/", "x">>
ResD      == <<"d">>

\* a JSON object with string values: a set of <<key, value>> pairs
HasKey(obj, k) == \E kv \in obj : kv[1] = k
ValueOf(obj, k) == (CHOOSE kv \in obj : kv[1] = k)[2]

\* ------------------------------------------------------------------------
\* CEL: expressions, environments, compilation, evaluation
\* ------------------------------------------------------------------------

ExprTrue    == "true"
ExprFalse   == "false"
ExprAdmin   == "subject.role == 'admin'"
ExprNonBool == "resource"
ExprRequest == "has(request.subject)"
ExprSyntax  == "subject.role =="
ExprEmpty   == ""

\* env.Parse: the empty text and the dangling operator are syntax errors
Parses(expr) == expr \notin {ExprEmpty, ExprSyntax}

\* the identifiers env.Check has to resolve
FreeVars(expr) ==
    CASE expr = ExprAdmin   -> {"subject"}
      [] expr = ExprNonBool -> {"resource"}
      [] expr = ExprRequest -> {"request"}
      [] OTHER              -> {}

\* the declarations of NewEvalEngine's environment
EngineEnv == {"subject", "resource", "action", "metadata", "protocol", "platform", "cloud"}

\* the declarations of ValidateCEL's environment
ValidateEnv == {"subject", "resource", "action", "metadata", "protocol", "platform", "cloud", "request"}

\* env.Parse, env.Check, env.Program all succeed
Compiles(expr, env) == Parses(expr) /\ FreeVars(expr) \subseteq env

\* ValidateCEL returns nil
ValidateCEL(expr) == expr # ExprEmpty /\ Compiles(expr, ValidateEnv)

\* prog.Eval followed by out.Value().(bool): "true", "false", "error" (evalErr # nil)
\* or "nonbool"; prog is the text the program was compiled from
EvalProg(prog, req) ==
    CASE prog = ExprTrue    -> "true"
      [] prog = ExprFalse   -> "false"
      [] prog = ExprAdmin   -> IF ~HasKey(req.subject, "role") THEN "error"
                               ELSE IF ValueOf(req.subject, "role") = "admin" THEN "true"
                               ELSE "false"
      [] prog = ExprNonBool -> "nonbool"
      [] OTHER              -> "error"

\* ------------------------------------------------------------------------
\* Resource matcher
\* ------------------------------------------------------------------------

\* glob.Compile succeeds: a character class that is opened is closed
GlobCompiles(pattern) ==
    \A i \in 1..Len(pattern) :
        pattern[i] = "[" => \E j \in (i+1)..Len(pattern) : pattern[j] = "]"

\* glob.Glob.Match for the patterns of literals, * and ?
RECURSIVE GlobMatch(_, _)
GlobMatch(pattern, value) ==
    IF pattern = <<>> THEN value = <<>>
    ELSE IF Head(pattern) = "*"
         THEN \/ GlobMatch(Tail(pattern), value)
              \/ value # <<>> /\ GlobMatch(pattern, Tail(value))
    ELSE IF value = <<>> THEN FALSE
    ELSE /\ Head(pattern) = "?" \/ Head(pattern) = Head(value)
         /\ GlobMatch(Tail(pattern), Tail(value))

\* resourceMatch raises (glob.MustCompile panics)
MatchPanics(pattern, cached) ==
    pattern # <<>> /\ pattern # <<"*">> /\ pattern \notin cached /\ ~GlobCompiles(pattern)

\* resourceMatch returns true
resourceMatch(pattern, value) ==
    \/ pattern = <<>>
    \/ pattern = <<"*">>
    \/ GlobMatch(pattern, value)

\* the patterns resourceMatch leaves in globCache
MatchCaches(pattern, cached) ==
    IF pattern = <<>> \/ pattern = <<"*">> \/ ~GlobCompiles(pattern)
    THEN cached ELSE cached \cup {pattern}

RECURSIVE Wildcards(_)
Wildcards(pattern) ==
    IF pattern = <<>> THEN 0
    ELSE (IF Head(pattern) \in {"*", "?"} THEN 1 ELSE 0) + Wildcards(Tail(pattern))

computeSpecificity(pattern) ==
    IF pattern = <<>> THEN 0 ELSE Len(pattern) - (Wildcards(pattern) * 10)

\* ------------------------------------------------------------------------
\* Policies and the policy store
\* ------------------------------------------------------------------------

\* the JSON body of a create or update request (model.Policy as decoded)
Body(name, effect, provider, resource, actions, expr, metadata, enabled, priority, version) ==
    [name |-> name, effect |-> effect, provider |-> provider, resource |-> resource,
     actions |-> actions, expr |-> expr, metadata |-> metadata, enabled |-> enabled,
     priority |-> priority, version |-> version]

\* the switch on the provider query parameter
Recognized == {"aws", "gcp", "database", "ssh", "rdp", "global"}

\* the column defaults of model.Policy that gorm applies to zero values on insert
DefaultPriority == 100
DefaultVersion == 1

\* json decoding leaves a field that the body does not carry at its zero value
Field(b, f, zero) == IF f \in DOMAIN b THEN b[f] ELSE zero

\* the row DB.Create inserts for body b with provider prov: the server assigns
\* the identity (the body's is reset), a timestamp that is zero is set to the
\* time of the insert, and a zero value of a column that has a default
\* (enabled, priority, version) is replaced by that default
CreateRow(b, prov, id, now) ==
    [id |-> id, name |-> b.name, effect |-> b.effect, provider |-> prov,
     resource |-> b.resource, actions |-> b.actions, expr |-> b.expr,
     metadata |-> b.metadata,
     enabled |-> TRUE,
     priority |-> IF b.priority = 0 THEN DefaultPriority ELSE b.priority,
     version |-> IF b.version = 0 THEN DefaultVersion ELSE b.version,
     createdAt |-> IF Field(b, "createdAt", 0) # 0 THEN b.createdAt ELSE now,
     updatedAt |-> now]

\* BeforeCreate: the hook validates the expression of the row to insert
BeforeCreate(p) == ValidateCEL(p.expr)

\* CHECK (effect IN ('allow','deny')) of the policies table
EffectCheck(effect) == effect \in {"allow", "deny"}

\* Selected without the test of enabled
SelectedDisabled(row, provider, action) ==
    /\ row.provider = provider
    /\ action # "" => (action \in Range(row.actions) \/ row.actions = <<>>)

\* the WHERE clause of loadPolicies
Selected(row, provider, action) ==
    /\ row.enabled
    /\ row.provider = provider
    /\ action # "" => (action \in Range(row.actions) \/ row.actions = <<>>)

\* the rows loadPolicies finds
loadPolicies(rows, provider, action) == {row \in rows : Selected(row, provider, action)}

\* ------------------------------------------------------------------------
\* Decision procedure: values
\* ------------------------------------------------------------------------

\* a reason text; the %s arguments of the formatted reasons are kept apart
Reason(text, name, action, resource) ==
    [text |-> text, name |-> name, action |-> action, resource |-> resource]

Msg(text) == Reason(text, "", "", <<>>)

\* policyMessageOrDefault that does not look at the metadata
policyMessageIgnored(p, defaultMsg) == defaultMsg

policyMessageOrDefault(p, defaultMsg) ==
    IF HasKey(p.metadata, "message") /\ ValueOf(p.metadata, "message") # ""
    THEN Msg(ValueOf(p.metadata, "message"))
    ELSE defaultMsg

policyNonMatchReason(p) ==
    IF HasKey(p.metadata, "non_match_message") /\ ValueOf(p.metadata, "non_match_message") # ""
    THEN Msg(ValueOf(p.metadata, "non_match_message"))
    ELSE Msg("conditions not met")

\* result is "true", "false" or "none" (a nil *bool)
TraceItem(p, result, reason, error) ==
    [policy_id |-> p.id, result |-> result, effect |-> p.effect, reason |-> reason,
     error |-> error]

\* what evaluate and evaluatePolicy return; err is "" for a nil error
Ret(decision, matched, reason, trace, err) ==
    [decision |-> decision, matched |-> matched, reason |-> reason, trace |-> trace,
     err |-> err]

NoRet == Ret("", Nil, Msg(""), <<>>, "")

\* the result of compileOrGet: a program, or the compile error
Compiled(ok, prog) == [ok |-> ok, prog |-> prog]

\* evaluatePolicy when compileOrGet returned an error
CompileError(p, failClosedFlag) ==
    LET t == <<TraceItem(p, "none", Msg("policy expression failed to compile"), "compile")>>
    IN IF failClosedFlag
       THEN Ret("deny", p.id,
                Reason("Access denied by policy: expression failed to compile", p.name, "", <<>>),
                t, "")
       ELSE Ret("allow", Nil, Msg("expression failed to compile (fail-open)"), t, "compile")

\* evaluatePolicy when prog.Eval returned an error
RuntimeError(p, failClosedFlag) ==
    LET t == <<TraceItem(p, "none", Msg("policy evaluation runtime error"), "runtime")>>
    IN IF failClosedFlag
       THEN Ret("deny", p.id,
                Reason("Access denied by policy: runtime error during evaluation", p.name, "", <<>>),
                t, "")
       ELSE Ret("allow", Nil, Msg("runtime error (fail-open)"), t, "runtime")

\* NonBoolean with the fail_closed test lost: the non-boolean result is let through
NonBooleanOpen(p, failClosedFlag) ==
    Ret("allow", Nil, Msg("non-boolean result (fail-open)"),
        <<TraceItem(p, "none", Msg("policy expression did not return boolean"),
                    "non-boolean result")>>, "")

\* evaluatePolicy when the value is not a bool: on the fail-open branch the
\* returned error is nil
NonBoolean(p, failClosedFlag) ==
    LET t == <<TraceItem(p, "none", Msg("policy expression did not return boolean"),
                         "non-boolean result")>>
    IN IF failClosedFlag
       THEN Ret("deny", p.id,
                Reason("Access denied by policy: expression did not return true/false", p.name, "", <<>>),
                t, "")
       ELSE Ret("allow", Nil, Msg("non-boolean result (fail-open)"), t, "")

\* evaluatePolicy when the predicate is true
PredicateTrue(p) ==
    IF p.effect = "deny"
    THEN LET r == policyMessageOrDefault(p, Reason("Access denied by policy", p.name, "", <<>>))
         IN Ret("deny", p.id, r, <<TraceItem(p, "true", r, "")>>, "")
    ELSE IF p.effect = "allow"
    THEN LET r == policyMessageOrDefault(p, Reason("Access allowed by policy", p.name, "", <<>>))
         IN Ret("allow", p.id, r, <<TraceItem(p, "true", r, "")>>, "")
    ELSE Ret("", Nil, Msg(""), <<>>, "")

\* evaluatePolicy when the predicate is false
PredicateFalse(p) ==
    Ret("", Nil, Msg(""), <<TraceItem(p, "false", policyNonMatchReason(p), "")>>, "")

\* evaluatePolicy, given what compileOrGet returned
evaluatePolicy(p, req, compiled, failClosedFlag) ==
    IF ~compiled.ok THEN CompileError(p, failClosedFlag)
    ELSE LET out == EvalProg(compiled.prog, req) IN
         CASE out = "error"   -> RuntimeError(p, failClosedFlag)
           [] out = "nonbool" -> NonBoolean(p, failClosedFlag)
           [] out = "true"    -> PredicateTrue(p)
           [] OTHER           -> PredicateFalse(p)

\* the less function of the provider layer's sort.Slice
Less(a, b) ==
    IF a.priority # b.priority THEN a.priority < b.priority
    ELSE IF computeSpecificity(a.resource) # computeSpecificity(b.resource)
         THEN computeSpecificity(a.resource) > computeSpecificity(b.resource)
    ELSE IF a.createdAt # b.createdAt THEN a.createdAt < b.createdAt
    ELSE a.id < b.id

\* the orders sort.Slice can leave the candidates in
SortedOrders(S) ==
    {s \in Orderings(S) : \A i, j \in 1..Cardinality(S) : i < j => ~Less(s[j], s[i])}

\* provider determination
Provider(req) == IF req.cloud = "" \/ req.cloud = "none" THEN req.protocol ELSE req.cloud

\* AuditRecord with the trace left out of the record
AuditRecordNoTrace(req, decision, matched, trace) ==
    [request |-> req, decision |-> decision, matched |-> matched, trace |-> <<>>]

\* the record persistAudit builds
AuditRecord(req, decision, matched, trace) ==
    [request |-> req, decision |-> decision, matched |-> matched, trace |-> trace]

\* ------------------------------------------------------------------------
\* State
\* ------------------------------------------------------------------------

VARIABLES
    failClosed,   \* EvalEngine.failClosed
    db,           \* the rows of the policies table
    cache,        \* EvalEngine.cache: pairs <<identity, text the program was compiled from>>
    globCache,    \* the patterns whose compiled glob is memoized
    audits,       \* the calls of persistAudit: the record and whether the insert succeeded
    dec,          \* per request goroutine: the position and the locals of EvaluateAndAudit
    wr,           \* the policy write handler in flight between its commit and its invalidation
    resp,         \* the last response of a policy handler
    clock,        \* the time the store stamps rows with
    writes,       \* the number of write requests made so far
    fresh,        \* history: per identity, the expression that the last update that
                  \* changed it installed, once its handler has returned
    sent          \* history: the last write request a policy handler served, the
                  \* identity it was for, and how many times in a row it was made

vars == <<failClosed, db, cache, globCache, audits, dec, wr, resp, clock, writes, fresh, sent>>

CacheHas(c, id) == \E kv \in c : kv[1] = id
CacheGet(c, id) == (CHOOSE kv \in c : kv[1] = id)[2]
\* CacheStore that overwrites every entry with the program it stores
CacheStoreAll(c, id, prog) == {<<kv[1], prog>> : kv \in c} \cup {<<id, prog>>}

\* sync.Map Store and Delete
CacheStore(c, id, prog) == {kv \in c : kv[1] # id} \cup {<<id, prog>>}
CacheDelete(c, id) == {kv \in c : kv[1] # id}

\* no program: compileOrGet returned an error
NoProg == "<none>"

\* Invalidate that clears the cache, as InvalidateAll does
InvalidateClears(c, id) == {}

\* Invalidate
Invalidate(c, id) == CacheDelete(c, id)

\* the identities the store can assign
Ids == 1..(MaxStore + MaxWrites)

NoFresh == [id \in Ids |-> NoProg]

\* a goroutine that serves no request.  Besides the locals of evaluate it
\* carries history: runs counts the requests served, storeErr whether a store
\* read failed, evals the calls of evaluatePolicy (the policy, the layer and
\* the program that was run), fence the value of fresh when the request began
IdleDec ==
    [pc |-> "idle", req |-> [subject |-> {}, resource |-> <<>>, action |-> "",
                             cloud |-> "", protocol |-> ""],
     layer |-> "", cands |-> <<>>, trace |-> <<>>, allowWinner |-> <<>>,
     ret |-> NoRet, storeErr |-> FALSE, evals |-> <<>>, runs |-> 0,
     fence |-> NoFresh]

NoWrite == [pc |-> "idle", id |-> Nil, changed |-> FALSE]
NoResp == [op |-> "", status |-> 0, id |-> Nil, row |-> <<>>]
NoSent == [op |-> "", id |-> Nil, c |-> <<>>, n |-> 0]

\* ------------------------------------------------------------------------
\* Decision procedure: steps of EvaluateAndAudit
\* ------------------------------------------------------------------------

\* evaluate returns: what is left of EvaluateAndAudit is the audit write
Return(d, ret) == [d EXCEPT !.pc = "audit", !.ret = ret, !.cands = <<>>]

\* EvalHandler.ServeHTTP decodes the request and calls EvaluateAndAudit
ServeHTTP(p, req, limit) ==
    /\ dec[p].pc \in {"idle", "done"}
    /\ dec[p].runs < limit
    /\ dec' = [dec EXCEPT ![p] = [IdleDec EXCEPT !.pc = "loadGlobal", !.req = req,
                                                 !.runs = dec[p].runs + 1,
                                                 !.fence = fresh]]
    /\ UNCHANGED <<failClosed, db, cache, globCache, audits, wr, resp, clock, writes, fresh, sent>>

\* the store errors of the global read
GlobalReadFails(d) ==
    IF failClosed
    THEN Return([d EXCEPT !.storeErr = TRUE], Ret("deny", Nil, Msg("database error: "), <<>>, "db"))
    ELSE Return([d EXCEPT !.storeErr = TRUE], Ret("allow", Nil, Msg("database error (fail-open)"), <<>>, "db"))

\* step 1 of evaluate: the read of the global policies, which the store returns
\* in an order of its own, or which fails
LoadGlobal(p) ==
    /\ dec[p].pc = "loadGlobal"
    /\ \/ dec' = [dec EXCEPT ![p] = GlobalReadFails(dec[p])]
       \/ \E order \in Orderings(loadPolicies(db, "global", dec[p].req.action)) :
              dec' = [dec EXCEPT ![p] = [@ EXCEPT !.pc = "global", !.layer = "global",
                                                  !.cands = order]]
    /\ UNCHANGED <<failClosed, db, cache, globCache, audits, wr, resp, clock, writes, fresh, sent>>

\* the body of the global loop after evaluatePolicy has returned r for Head(cands)
GlobalOutcome(d, r) ==
    LET traceOut == d.trace \o r.trace IN
    IF r.err # "" THEN Return([d EXCEPT !.trace = traceOut],
                              Ret(r.decision, r.matched, r.reason, traceOut, r.err))
    ELSE IF r.decision = "deny"
         THEN Return([d EXCEPT !.trace = traceOut], Ret("deny", r.matched, r.reason, traceOut, ""))
    ELSE [d EXCEPT !.pc = "global", !.trace = traceOut, !.cands = Tail(d.cands)]

\* ProviderOutcome in which the first allow ends the loop
ProviderOutcomeFirstAllow(d, r) ==
    LET traceOut == d.trace \o r.trace IN
    IF r.err # "" THEN Return([d EXCEPT !.trace = traceOut],
                              Ret(r.decision, r.matched, r.reason, traceOut, r.err))
    ELSE IF r.decision \in {"deny", "allow"}
         THEN Return([d EXCEPT !.trace = traceOut], Ret(r.decision, r.matched, r.reason, traceOut, ""))
    ELSE [d EXCEPT !.pc = "provider", !.trace = traceOut, !.cands = Tail(d.cands)]

\* the body of the provider loop after evaluatePolicy has returned r for Head(cands)
ProviderOutcome(d, r) ==
    LET traceOut == d.trace \o r.trace IN
    IF r.err # "" THEN Return([d EXCEPT !.trace = traceOut],
                              Ret(r.decision, r.matched, r.reason, traceOut, r.err))
    ELSE IF r.decision = "deny"
         THEN Return([d EXCEPT !.trace = traceOut], Ret("deny", r.matched, r.reason, traceOut, ""))
    ELSE [d EXCEPT !.pc = "provider", !.trace = traceOut, !.cands = Tail(d.cands),
                   !.allowWinner = IF r.decision = "allow" THEN <<Head(d.cands)>> ELSE @]

Outcome(d, r) == IF d.layer = "global" THEN GlobalOutcome(d, r) ELSE ProviderOutcome(d, r)

\* the evaluation of policy pol with program prog, noted for the record
Used(d, pol, prog) ==
    [d EXCEPT !.evals = Append(@, [pol |-> pol, layer |-> d.layer, prog |-> prog,
                                   fence |-> IF d.fence[pol.id] = fresh[pol.id]
                                             THEN fresh[pol.id] ELSE NoProg])]

\* compileOrGet up to its cache load, for the candidate pol: on a hit the cached
\* program is evaluated, on a miss the goroutine goes on to compile
CacheLoad(p, pol) ==
    IF CacheHas(cache, pol.id)
    THEN dec' = [dec EXCEPT ![p] =
                    Outcome(Used(dec[p], pol, CacheGet(cache, pol.id)),
                            evaluatePolicy(pol, dec[p].req,
                                           Compiled(TRUE, CacheGet(cache, pol.id)), failClosed))]
    ELSE dec' = [dec EXCEPT ![p] = [@ EXCEPT !.pc = "compile"]]

\* one iteration of the global loop up to the cache load of compileOrGet
GlobalStep(p) ==
    /\ dec[p].pc = "global"
    /\ dec[p].cands # <<>>
    /\ LET pol == Head(dec[p].cands) IN
       IF MatchPanics(pol.resource, globCache)
       THEN /\ dec' = [dec EXCEPT ![p] = [@ EXCEPT !.pc = "panic"]]
            /\ UNCHANGED globCache
       ELSE /\ globCache' = MatchCaches(pol.resource, globCache)
            /\ IF resourceMatch(pol.resource, dec[p].req.resource)
               THEN CacheLoad(p, pol)
               ELSE dec' = [dec EXCEPT ![p] = [@ EXCEPT !.cands = Tail(@)]]
    /\ UNCHANGED <<failClosed, db, cache, audits, wr, resp, clock, writes, fresh, sent>>

\* compileOrGet after a miss: parse, check, compile under the engine's
\* environment, store the program, then the rest of evaluatePolicy
CompileStep(p) ==
    /\ dec[p].pc = "compile"
    /\ LET pol == Head(dec[p].cands) IN
       IF Compiles(pol.expr, EngineEnv)
       THEN /\ cache' = CacheStore(cache, pol.id, pol.expr)
            /\ dec' = [dec EXCEPT ![p] =
                          Outcome(Used(@, pol, pol.expr),
                                  evaluatePolicy(pol, @.req, Compiled(TRUE, pol.expr), failClosed))]
       ELSE /\ UNCHANGED cache
            /\ dec' = [dec EXCEPT ![p] =
                          Outcome(Used(@, pol, NoProg),
                                  evaluatePolicy(pol, @.req, Compiled(FALSE, NoProg), failClosed))]
    /\ UNCHANGED <<failClosed, db, globCache, audits, wr, resp, clock, writes, fresh, sent>>

\* the rows of order that precede its first row whose pattern makes resourceMatch raise
RECURSIVE BeforePanic(_, _)
BeforePanic(order, cached) ==
    IF order = <<>> THEN <<>>
    ELSE IF MatchPanics(Head(order).resource, cached) THEN <<>>
    ELSE <<Head(order)>> \o BeforePanic(Tail(order), cached)

\* ProviderReadFails with the trace of the global layer dropped
ProviderReadFailsNoTrace(d) ==
    IF failClosed
    THEN Return([d EXCEPT !.storeErr = TRUE], Ret("deny", Nil, Msg("database error: "), <<>>, "db"))
    ELSE Return([d EXCEPT !.storeErr = TRUE], Ret("allow", Nil, Msg("database error (fail-open)"), <<>>, "db"))

\* the store errors of the provider read
ProviderReadFails(d) ==
    IF failClosed
    THEN Return([d EXCEPT !.storeErr = TRUE], Ret("deny", Nil, Msg("database error: "), d.trace, "db"))
    ELSE Return([d EXCEPT !.storeErr = TRUE], Ret("allow", Nil, Msg("database error (fail-open)"), d.trace, "db"))

\* step 2 of evaluate: provider determination, the read of the provider's
\* policies, the resource filter and the sort
LoadProvider(p) ==
    /\ dec[p].pc = "global"
    /\ dec[p].cands = <<>>
    /\ LET d == dec[p]
           provider == Provider(d.req)
       IN IF provider = ""
          THEN /\ dec' = [dec EXCEPT ![p] =
                             Return(d, Ret("deny", Nil, Msg("Access denied: no provider specified"),
                                           d.trace, ""))]
               /\ UNCHANGED globCache
          ELSE \/ /\ dec' = [dec EXCEPT ![p] = ProviderReadFails(d)]
                  /\ UNCHANGED globCache
               \/ \E order \in Orderings(loadPolicies(db, provider, d.req.action)) :
                     LET seen == BeforePanic(order, globCache)
                         kept == {row \in Range(seen) : resourceMatch(row.resource, d.req.resource)}
                     IN /\ globCache' = globCache \cup
                               {row.resource : row \in {x \in Range(seen) :
                                      MatchCaches(x.resource, {}) # {}}}
                        /\ IF Len(seen) < Len(order)
                           THEN dec' = [dec EXCEPT ![p] = [d EXCEPT !.pc = "panic"]]
                           ELSE \E sorted \in SortedOrders(kept) :
                                   dec' = [dec EXCEPT ![p] =
                                              [d EXCEPT !.pc = "provider", !.layer = "provider",
                                                        !.cands = sorted]]
    /\ UNCHANGED <<failClosed, db, cache, audits, wr, resp, clock, writes, fresh, sent>>

\* one iteration of the provider loop up to the cache load of compileOrGet
ProviderStep(p) ==
    /\ dec[p].pc = "provider"
    /\ dec[p].cands # <<>>
    /\ CacheLoad(p, Head(dec[p].cands))
    /\ UNCHANGED <<failClosed, db, cache, globCache, audits, wr, resp, clock, writes, fresh, sent>>

\* the outcome of evaluate after the provider loop
FinalOutcome(d) ==
    IF d.allowWinner # <<>>
    THEN LET w == d.allowWinner[1]
         IN Ret("allow", w.id,
                policyMessageOrDefault(w, Reason("Access allowed by policy", w.name, "", <<>>)),
                d.trace, "")
    ELSE Ret("deny", Nil,
             Reason("Access denied: no allow policy matched for action on resource", "",
                    d.req.action, d.req.resource),
             d.trace, "")

Finish(p) ==
    /\ dec[p].pc = "provider"
    /\ dec[p].cands = <<>>
    /\ dec' = [dec EXCEPT ![p] = Return(@, FinalOutcome(@))]
    /\ UNCHANGED <<failClosed, db, cache, globCache, audits, wr, resp, clock, writes, fresh, sent>>

\* Audit in which the error of a failed insert replaces what evaluate returned
AuditFailing(p) ==
    /\ dec[p].pc = "audit"
    /\ \E stored \in BOOLEAN :
          /\ audits' = Append(audits,
                              [who |-> p, run |-> dec[p].runs, stored |-> stored,
                               record |-> AuditRecord(dec[p].req, dec[p].ret.decision,
                                                      dec[p].ret.matched, dec[p].ret.trace)])
          /\ dec' = [dec EXCEPT ![p] = [@ EXCEPT !.pc = "done",
                                                 !.ret = IF stored THEN @
                                                         ELSE Ret("deny", Nil, Msg("audit error"), <<>>, "db")]]
    /\ UNCHANGED <<failClosed, db, cache, globCache, wr, resp, clock, writes, fresh, sent>>

\* persistAudit, whose insert succeeds or fails, and the return of EvaluateAndAudit
Audit(p) ==
    /\ dec[p].pc = "audit"
    /\ \E stored \in BOOLEAN :
          audits' = Append(audits,
                           [who |-> p, run |-> dec[p].runs, stored |-> stored,
                            record |-> AuditRecord(dec[p].req, dec[p].ret.decision,
                                                   dec[p].ret.matched, dec[p].ret.trace)])
    /\ dec' = [dec EXCEPT ![p] = [@ EXCEPT !.pc = "done"]]
    /\ UNCHANGED <<failClosed, db, cache, globCache, wr, resp, clock, writes, fresh, sent>>

\* ------------------------------------------------------------------------
\* SpecEval: one decision over a store that create requests have filled
\* ------------------------------------------------------------------------

\* create requests: the body and the provider query parameter
BGDeny   == [param |-> "global",
             body |-> Body("GD", "deny", "", PatStar, <<>>, ExprAdmin, {<<"message", "blocked">>}, TRUE, 10, 0)]
BGAllow  == [param |-> "",
             body |-> Body("GA", "allow", "", PatEmpty, <<>>, ExprTrue, {}, TRUE, 20, 0)]
BGReq    == [param |-> "global",
             body |-> Body("GR", "allow", "", PatStar, <<>>, ExprRequest, {}, TRUE, 5, 0)]
BPWide   == [param |-> "aws",
             body |-> Body("PA", "allow", "", PatWide, <<"read">>, ExprTrue, {}, TRUE, 0, 0)]
BPNarrow == [param |-> "aws",
             body |-> Body("PB", "allow", "", PatNarrow, <<>>, ExprTrue, {<<"message", "welcome">>}, TRUE, 0, 0)]
BPDeny   == [param |-> "aws",
             body |-> Body("PD", "deny", "", PatOne, <<>>, ExprTrue, {}, TRUE, 200, 0)]
BPErr    == [param |-> "aws",
             body |-> Body("PE", "allow", "", PatStar, <<>>, ExprAdmin, {<<"non_match_message", "admins only">>}, TRUE, 50, 0)]
BPNon    == [param |-> "aws",
             body |-> Body("PN", "deny", "", PatStar, <<>>, ExprNonBool, {}, TRUE, 50, 0)]
BPBad    == [param |-> "aws",
             body |-> Body("PX", "allow", "", PatBad, <<>>, ExprTrue, {}, TRUE, 0, 0)]

EvalCreates == {BGDeny, BGAllow, BGReq, BPWide, BPNarrow, BPDeny, BPErr, BPNon, BPBad}

\* the times at which the rows of a store were created
CreatedTimes == {1, 2}

\* the provider Create stores for a query parameter it accepts
CreateProvider(param) == IF param = "" THEN "global" ELSE param

\* Create accepts the request: the parameter is recognized, the hook and the
\* effect constraint pass
CreateAccepts(c) ==
    /\ c.param = "" \/ c.param \in Recognized
    /\ BeforeCreate(c.body)
    /\ EffectCheck(c.body.effect)

\* the stores of at most MaxStore rows that accepted create requests leave
EvalStores ==
    UNION {{{CreateRow(f[i].body, CreateProvider(f[i].param), i, t[i]) : i \in 1..n} :
               f \in [1..n -> {c \in EvalCreates : CreateAccepts(c)}],
               t \in [1..n -> CreatedTimes]} :
           n \in 0..MaxStore}

Req(subject, resource, action, cloud, protocol) ==
    [subject |-> subject, resource |-> resource, action |-> action, cloud |-> cloud,
     protocol |-> protocol]

EvalRequests ==
    {Req({<<"role", "admin">>}, ResX, "read", "aws", ""),
     Req({}, ResX, "read", "aws", "ssh"),
     Req({<<"role", "guest">>}, ResX, "", "none", "aws"),
     Req({<<"role", "guest">>}, ResX, "read", "global", ""),
     Req({<<"role", "guest">>}, ResD, "read", "", "")}

InitEval ==
    /\ failClosed \in BOOLEAN
    /\ db \in EvalStores
    /\ cache = {}
    /\ globCache = {}
    /\ audits = <<>>
    /\ dec = [p \in {1} |-> IdleDec]
    /\ wr = NoWrite
    /\ resp = NoResp
    /\ clock = 2
    /\ writes = 0
    /\ fresh = NoFresh
    /\ sent = NoSent

NextEval ==
    \/ \E p \in DOMAIN dec, req \in EvalRequests : ServeHTTP(p, req, 1)
    \/ \E p \in DOMAIN dec : LoadGlobal(p)
    \/ \E p \in DOMAIN dec : GlobalStep(p)
    \/ \E p \in DOMAIN dec : CompileStep(p)
    \/ \E p \in DOMAIN dec : LoadProvider(p)
    \/ \E p \in DOMAIN dec : ProviderStep(p)
    \/ \E p \in DOMAIN dec : Finish(p)
    \/ \E p \in DOMAIN dec : Audit(p)

SpecEval == InitEval /\ [][NextEval]_vars

\* ------------------------------------------------------------------------
\* Policy handlers
\* ------------------------------------------------------------------------

Response(op, status, id, row) == [op |-> op, status |-> status, id |-> id, row |-> row]

\* the note of write request c for identity id: n counts how many times in a
\* row this very request was made
Sent(op, id, c) ==
    [op |-> op, id |-> id, c |-> c,
     n |-> IF sent.op = op /\ sent.id = id /\ sent.c = c THEN sent.n + 1 ELSE 1]

\* PolicyHandler.Create: the provider parameter, the insert with its hook and
\* constraint, the invalidation of the new identity
Create(c) ==
    /\ wr.pc = "idle"
    /\ writes < MaxWrites
    /\ Cardinality(db) < MaxStore
    /\ writes' = writes + 1
    /\ IF c.param # "" /\ c.param \notin Recognized
       THEN /\ resp' = Response("create", 400, Nil, <<>>)
            /\ sent' = Sent("create", Nil, c)
            /\ UNCHANGED <<db, cache, clock>>
       ELSE LET row == CreateRow(c.body, CreateProvider(c.param), writes + 1, clock + 1)
            IN IF ~BeforeCreate(row) \/ ~EffectCheck(row.effect)
               THEN /\ resp' = Response("create", 400, Nil, <<>>)
                    /\ sent' = Sent("create", Nil, c)
                    /\ UNCHANGED <<db, cache, clock>>
               ELSE /\ db' = db \cup {row}
                    /\ sent' = Sent("create", row.id, c)
                    /\ clock' = clock + 1
                    /\ cache' = Invalidate(cache, row.id)
                    /\ resp' = Response("create", 201, row.id, <<row>>)
    /\ UNCHANGED <<failClosed, globCache, audits, dec, wr, fresh>>

\* PolicyHandler.Get
Get(id) ==
    /\ resp' = IF \E row \in db : row.id = id
               THEN Response("get", 200, id, <<CHOOSE row \in db : row.id = id>>)
               ELSE Response("get", 404, id, <<>>)
    /\ resp' # resp
    /\ UNCHANGED <<failClosed, db, cache, globCache, audits, dec, wr, clock, writes, fresh, sent>>

\* the value Update hands to Updates: the body, with the provider parameter
\* when there is one
UpdateInput(c) == IF c.param # "" THEN [c.body EXCEPT !.provider = c.param] ELSE c.body

\* in.ID = existing.ID and in.CreatedAt = existing.CreatedAt, whatever the body
\* carried for them
Preserve(existing, in) == [id |-> existing.id, createdAt |-> existing.createdAt] @@ in

\* BeforeUpdate returns nil.  The hook runs on the statement's model, which
\* is the row as read before the update (existing), and Changed compares that
\* model with the value handed to Updates (in)
BeforeUpdate(existing, in) ==
    IF in.expr # existing.expr THEN ValidateCEL(existing.expr) ELSE TRUE

\* UpdateRow with created_at stamped like updated_at
UpdateRowStamped(existing, in, now) ==
    [existing EXCEPT !.name = in.name, !.effect = in.effect, !.provider = in.provider,
                     !.resource = in.resource, !.actions = in.actions, !.expr = in.expr,
                     !.metadata = in.metadata, !.enabled = in.enabled,
                     !.priority = in.priority, !.version = in.version,
                     !.createdAt = now, !.updatedAt = now]

\* UpdateRow with the actions of the body added to those of the row
UpdateRowAppend(existing, in, now) ==
    [existing EXCEPT !.name = in.name, !.effect = in.effect, !.provider = in.provider,
                     !.resource = in.resource, !.actions = @ \o in.actions, !.expr = in.expr,
                     !.metadata = in.metadata, !.enabled = in.enabled,
                     !.priority = in.priority, !.version = in.version,
                     !.updatedAt = now]

\* the row after Model(&existing).Select(...).Updates(in): the selected
\* columns take the values of in, zero values included, and updated_at is set
UpdateRow(existing, in, now) ==
    [existing EXCEPT !.name = in.name, !.effect = in.effect, !.provider = in.provider,
                     !.resource = in.resource, !.actions = in.actions, !.expr = in.expr,
                     !.metadata = in.metadata, !.enabled = in.enabled,
                     !.priority = in.priority, !.version = in.version,
                     !.updatedAt = now]

\* PolicyHandler.Update up to the commit of the update statement
UpdateCommit(id, c) ==
    /\ wr.pc = "idle"
    /\ writes < MaxWrites
    /\ writes' = writes + 1
    /\ sent' = Sent("update", id, c)
    /\ IF ~\E row \in db : row.id = id
       THEN /\ resp' = Response("update", 404, id, <<>>)
            /\ UNCHANGED <<db, clock, wr, fresh>>
       ELSE LET existing == CHOOSE row \in db : row.id = id
                in == Preserve(existing, UpdateInput(c))
            IN IF \/ c.param # "" /\ c.param \notin Recognized
                  \/ ~BeforeUpdate(existing, in)
                  \/ ~EffectCheck(in.effect)
               THEN /\ resp' = Response("update", 400, id, <<>>)
                    /\ UNCHANGED <<db, clock, wr, fresh>>
               ELSE /\ db' = (db \ {existing}) \cup {UpdateRow(existing, in, clock + 1)}
                    /\ clock' = clock + 1
                    /\ wr' = [pc |-> "update", id |-> id, changed |-> in.expr # existing.expr]
                    /\ fresh' = IF in.expr # existing.expr
                                THEN [fresh EXCEPT ![id] = NoProg] ELSE fresh
                    /\ UNCHANGED resp
    /\ UNCHANGED <<failClosed, cache, globCache, audits, dec>>

\* the rest of PolicyHandler.Update: the refetch, the invalidation, the response
UpdateReturn ==
    /\ wr.pc = "update"
    /\ LET row == CHOOSE r \in db : r.id = wr.id
       IN /\ cache' = Invalidate(cache, wr.id)
          /\ resp' = Response("update", 200, wr.id, <<row>>)
          /\ fresh' = IF wr.changed THEN [fresh EXCEPT ![wr.id] = row.expr] ELSE fresh
    /\ wr' = NoWrite
    /\ UNCHANGED <<failClosed, db, globCache, audits, dec, clock, writes, sent>>

\* PolicyHandler.Delete up to the commit of the delete statement
DeleteCommit(id) ==
    /\ wr.pc = "idle"
    /\ writes < MaxWrites
    /\ writes' = writes + 1
    /\ sent' = Sent("delete", id, <<>>)
    /\ IF ~\E row \in db : row.id = id
       THEN /\ resp' = Response("delete", 404, id, <<>>)
            /\ UNCHANGED <<db, wr, fresh>>
       ELSE /\ db' = {row \in db : row.id # id}
            /\ wr' = [pc |-> "delete", id |-> id, changed |-> FALSE]
            /\ fresh' = [fresh EXCEPT ![id] = NoProg]
            /\ UNCHANGED resp
    /\ UNCHANGED <<failClosed, cache, globCache, audits, dec, clock>>

\* the rest of PolicyHandler.Delete: the invalidation, the response
DeleteReturn ==
    /\ wr.pc = "delete"
    /\ cache' = Invalidate(cache, wr.id)
    /\ resp' = Response("delete", 204, wr.id, <<>>)
    /\ wr' = NoWrite
    /\ UNCHANGED <<failClosed, db, globCache, audits, dec, clock, writes, fresh, sent>>

\* ------------------------------------------------------------------------
\* Spec: the policy handlers and the decisions of one goroutine
\* ------------------------------------------------------------------------

\* number of decision requests the goroutine of Spec serves
MaxRuns == 2

WGTrue   == [param |-> "global",
             body |-> Body("GD", "deny", "global", PatStar, <<>>, ExprTrue, {}, TRUE, 10, 0)]
WGFalse  == [param |-> "",
             body |-> Body("GD", "deny", "global", PatStar, <<>>, ExprFalse, {}, TRUE, 10, 0)]
WPReq    == [param |-> "aws",
             body |-> Body("PR", "allow", "aws", PatStar, <<>>, ExprRequest, {}, TRUE, 5, 0)]
WSyntax  == [param |-> "",
             body |-> Body("GS", "deny", "global", PatStar, <<>>, ExprSyntax, {}, TRUE, 10, 0)]
WAzure   == [param |-> "azure",
             body |-> Body("PZ", "allow", "azure", PatStar, <<>>, ExprTrue, {}, TRUE, 0, 0)]

\* a body that names a provider, sent without the provider parameter
WUnscoped == [param |-> "",
             body |-> Body("PU", "allow", "aws", PatWide, <<"read">>, ExprTrue, {}, TRUE, 30, 2)]
\* a body whose provider is not a recognized one, sent without the parameter
WBodyAzure == [param |-> "",
             body |-> Body("PY", "allow", "azure", PatStar, <<>>, ExprTrue, {}, TRUE, 40, 2)]
\* a body that carries an identity and a created_at of its own
WForeign == [param |-> "global",
             body |-> Body("GF", "deny", "global", PatStar, <<"read">>, ExprTrue, {}, TRUE, 10, 5)
                          @@ [id |-> 2, createdAt |-> 9]]

\* the write requests of Spec
Writes == {WGTrue, WGFalse, WPReq}

\* the write requests of SpecCrud
CrudWrites == {WGTrue, WGFalse, WPReq, WSyntax, WAzure, WUnscoped, WBodyAzure, WForeign}

Requests == {Req({<<"role", "admin">>}, ResX, "read", "aws", "")}

Init ==
    /\ failClosed \in BOOLEAN
    /\ db = {}
    /\ cache = {}
    /\ globCache = {}
    /\ audits = <<>>
    /\ dec = [p \in {1} |-> IdleDec]
    /\ wr = NoWrite
    /\ resp = NoResp
    /\ clock = 0
    /\ writes = 0
    /\ fresh = NoFresh
    /\ sent = NoSent

Next ==
    \/ \E c \in Writes : Create(c)
    \/ \E id \in Ids, c \in Writes : UpdateCommit(id, c)
    \/ UpdateReturn
    \/ \E id \in Ids : DeleteCommit(id)
    \/ DeleteReturn
    \/ \E p \in DOMAIN dec, req \in Requests : ServeHTTP(p, req, MaxRuns)
    \/ \E p \in DOMAIN dec : LoadGlobal(p)
    \/ \E p \in DOMAIN dec : GlobalStep(p)
    \/ \E p \in DOMAIN dec : CompileStep(p)
    \/ \E p \in DOMAIN dec : LoadProvider(p)
    \/ \E p \in DOMAIN dec : ProviderStep(p)
    \/ \E p \in DOMAIN dec : Finish(p)
    \/ \E p \in DOMAIN dec : Audit(p)

Spec == Init /\ [][Next]_vars

\* ------------------------------------------------------------------------
\* SpecCrud: the policy handlers alone
\* ------------------------------------------------------------------------

NextCrud ==
    \/ \E c \in CrudWrites : Create(c)
    \/ \E id \in Ids : Get(id)
    \/ \E id \in Ids, c \in CrudWrites : UpdateCommit(id, c)
    \/ UpdateReturn
    \/ \E id \in Ids : DeleteCommit(id)
    \/ DeleteReturn

SpecCrud == Init /\ [][NextCrud]_vars

\* ------------------------------------------------------------------------
\* SpecPair: two goroutines decide the same request over the same store
\* ------------------------------------------------------------------------

\* the requests of SpecPair
PairRequests ==
    {Req({<<"role", "admin">>}, ResX, "read", "aws", ""),
     Req({<<"role", "guest">>}, ResD, "read", "", "")}

InitPair ==
    /\ failClosed \in BOOLEAN
    /\ db \in EvalStores
    /\ cache = {}
    /\ globCache = {}
    /\ audits = <<>>
    /\ dec = [p \in {1, 2} |-> IdleDec]
    /\ wr = NoWrite
    /\ resp = NoResp
    /\ clock = 2
    /\ writes = 0
    /\ fresh = NoFresh
    /\ sent = NoSent

\* the second request is the request the first goroutine is serving
NextPair ==
    \/ \E req \in PairRequests : ServeHTTP(1, req, 1)
    \/ dec[1].pc \in {"audit", "done"} /\ ServeHTTP(2, dec[1].req, 1)
    \/ \E p \in DOMAIN dec : LoadGlobal(p)
    \/ \E p \in DOMAIN dec : GlobalStep(p)
    \/ \E p \in DOMAIN dec : CompileStep(p)
    \/ \E p \in DOMAIN dec : LoadProvider(p)
    \/ \E p \in DOMAIN dec : ProviderStep(p)
    \/ \E p \in DOMAIN dec : Finish(p)
    \/ \E p \in DOMAIN dec : Audit(p)

SpecPair == InitPair /\ [][NextPair]_vars

\* ------------------------------------------------------------------------
\* SpecInvalidate: updates and deletes over a store whose policies have all
\* been evaluated, so that the cache holds the program of each of them
\* ------------------------------------------------------------------------

\* the stores of at most MaxStore rows that these create requests leave
CachedStores ==
    UNION {{{CreateRow(f[i].body, CreateProvider(f[i].param), i, i) : i \in 1..n} :
               f \in [1..n -> {c \in {BGDeny, BGAllow, BPWide} : CreateAccepts(c)}]} :
           n \in 0..MaxStore}

InitInvalidate ==
    /\ failClosed \in BOOLEAN
    /\ db \in CachedStores
    /\ cache = {<<row.id, row.expr>> : row \in {r \in db : Compiles(r.expr, EngineEnv)}}
    /\ globCache = {}
    /\ audits = <<>>
    /\ dec = [p \in {1} |-> IdleDec]
    /\ wr = NoWrite
    /\ resp = NoResp
    /\ clock = MaxStore
    /\ writes = 0
    /\ fresh = NoFresh
    /\ sent = NoSent

NextInvalidate ==
    \/ \E id \in Ids, c \in Writes : UpdateCommit(id, c)
    \/ UpdateReturn
    \/ \E id \in Ids : DeleteCommit(id)
    \/ DeleteReturn

SpecInvalidate == InitInvalidate /\ [][NextInvalidate]_vars

\* ------------------------------------------------------------------------
\* SpecScope: one decision over a store in which an update has disabled a policy
\* ------------------------------------------------------------------------

\* a global policy of the priority of BGAllow with a pattern of lower specificity
BGWide == [param |-> "global",
           body |-> Body("GW", "allow", "", PatWide, <<>>, ExprFalse, {}, TRUE, 20, 0)]

\* an update that turns a policy into a disabled deny of the global scope
WOff == [param |-> "global",
         body |-> Body("GO", "deny", "global", PatStar, <<>>, ExprTrue, {}, FALSE, 1, 3)]

\* the stores that creates leave, and those stores after the update of one row with WOff
ScopeStores ==
    LET created == UNION {{{CreateRow(f[i].body, CreateProvider(f[i].param), i, t[i]) : i \in 1..n} :
                              f \in [1..n -> {c \in {BGDeny, BGAllow, BGWide, BPWide, BPNarrow, BPDeny} :
                                                 CreateAccepts(c)}],
                              t \in [1..n -> CreatedTimes]} :
                          n \in 0..MaxStore}
    IN created \cup
       UNION {{(s \ {row}) \cup {UpdateRow(row, Preserve(row, UpdateInput(WOff)), 3)} : row \in s} :
              s \in created}

ScopeRequests ==
    {Req({<<"role", "admin">>}, ResX, "read", "aws", ""),
     Req({<<"role", "admin">>}, ResX, "write", "aws", ""),
     Req({<<"role", "guest">>}, ResD, "read", "aws", ""),
     Req({<<"role", "guest">>}, ResX, "", "none", "aws"),
     Req({<<"role", "guest">>}, ResX, "read", "global", "")}

InitScope ==
    /\ failClosed \in BOOLEAN
    /\ db \in ScopeStores
    /\ cache = {}
    /\ globCache = {}
    /\ audits = <<>>
    /\ dec = [p \in {1} |-> IdleDec]
    /\ wr = NoWrite
    /\ resp = NoResp
    /\ clock = 3
    /\ writes = 0
    /\ fresh = NoFresh
    /\ sent = NoSent

NextScope ==
    \/ \E p \in DOMAIN dec, req \in ScopeRequests : ServeHTTP(p, req, 1)
    \/ \E p \in DOMAIN dec : LoadGlobal(p)
    \/ \E p \in DOMAIN dec : GlobalStep(p)
    \/ \E p \in DOMAIN dec : CompileStep(p)
    \/ \E p \in DOMAIN dec : LoadProvider(p)
    \/ \E p \in DOMAIN dec : ProviderStep(p)
    \/ \E p \in DOMAIN dec : Finish(p)
    \/ \E p \in DOMAIN dec : Audit(p)

SpecScope == InitScope /\ [][NextScope]_vars

\* ------------------------------------------------------------------------
\* SpecRace: two goroutines decide at the same time over a store that no
\* handler modifies
\* ------------------------------------------------------------------------

\* the stores of SpecRace
RaceStores ==
    UNION {{{CreateRow(f[i].body, CreateProvider(f[i].param), i, i) : i \in 1..n} :
               f \in [1..n -> {c \in {BGDeny, BGReq, BPWide, BPNon} : CreateAccepts(c)}]} :
           n \in 0..MaxStore}

\* the requests of SpecRace
RaceRequests ==
    {Req({<<"role", "admin">>}, ResX, "read", "aws", ""),
     Req({<<"role", "guest">>}, ResX, "read", "aws", "")}

InitRace ==
    /\ failClosed \in BOOLEAN
    /\ db \in RaceStores
    /\ cache = {}
    /\ globCache = {}
    /\ audits = <<>>
    /\ dec = [p \in {1, 2} |-> IdleDec]
    /\ wr = NoWrite
    /\ resp = NoResp
    /\ clock = MaxStore
    /\ writes = 0
    /\ fresh = NoFresh
    /\ sent = NoSent

\* each goroutine serves one request, at any time
NextRace ==
    \/ \E p \in DOMAIN dec, req \in RaceRequests : ServeHTTP(p, req, 1)
    \/ \E p \in DOMAIN dec : LoadGlobal(p)
    \/ \E p \in DOMAIN dec : GlobalStep(p)
    \/ \E p \in DOMAIN dec : CompileStep(p)
    \/ \E p \in DOMAIN dec : LoadProvider(p)
    \/ \E p \in DOMAIN dec : ProviderStep(p)
    \/ \E p \in DOMAIN dec : Finish(p)
    \/ \E p \in DOMAIN dec : Audit(p)

SpecRace == InitRace /\ [][NextRace]_vars

\* ------------------------------------------------------------------------
\* Properties
\* ------------------------------------------------------------------------

\* evaluate has returned in goroutine p
Returned(p) == dec[p].pc \in {"audit", "done"}

\* what the predicate of evaluation e came to: "compile" when there was no
\* program, else the value or error of the program that was run
PredOutcome(e, req) == IF e.prog = NoProg THEN "compile" ELSE EvalProg(e.prog, req)

PredErrors == {"compile", "error", "nonbool"}

\* row is a candidate of req in the global scope or in req's provider scope
\* whose effect is deny and whose predicate is true
TrueDeny(row, req) ==
    /\ row.enabled
    /\ row.provider \in {"global", Provider(req)}
    /\ req.action # "" => (req.action \in Range(row.actions) \/ row.actions = <<>>)
    /\ resourceMatch(row.resource, req.resource)
    /\ row.effect = "deny"
    /\ Compiles(row.expr, EngineEnv)
    /\ EvalProg(row.expr, req) = "true"

\* the evaluations of the provider layer in which a policy of effect allow had
\* a true predicate
TrueAllows(d) ==
    {i \in 1..Len(d.evals) :
        /\ d.evals[i].layer = "provider"
        /\ d.evals[i].pol.effect = "allow"
        /\ PredOutcome(d.evals[i], d.req) = "true"}

\* C1 (deny supremacy): whenever both store reads of a decision succeeded and
\* some enabled policy of the global scope or of the request's provider scope
\* admits the action, matches the resource, has effect deny and a true
\* predicate, the decision returned is deny, for both values of fail_closed.
C1_DenySupremacy ==
    \A p \in DOMAIN dec :
        (dec[p].pc = "done" /\ ~dec[p].storeErr /\ \E row \in db : TrueDeny(row, dec[p].req))
            => dec[p].ret.decision = "deny"

\* C2 (fail-closed): with fail_closed = true, a decision in which a store read
\* failed is deny, and a decision in which the predicate of a candidate failed
\* to compile, raised or returned a non-boolean is deny with that candidate as
\* the matched policy.
C2_FailClosed ==
    \A p \in DOMAIN dec :
        (failClosed /\ Returned(p)) =>
            /\ dec[p].storeErr => (dec[p].ret.decision = "deny" /\ dec[p].ret.matched = Nil)
            /\ \A i \in 1..Len(dec[p].evals) :
                  PredOutcome(dec[p].evals[i], dec[p].req) \in PredErrors
                      => /\ dec[p].ret.decision = "deny"
                         /\ dec[p].ret.matched = dec[p].evals[i].pol.id

\* a fail-closed decision has returned after a predicate failed to compile
C2_Witness ==
    \E p \in DOMAIN dec :
        /\ failClosed
        /\ dec[p].pc = "done"
        /\ \E i \in 1..Len(dec[p].evals) :
              /\ PredOutcome(dec[p].evals[i], dec[p].req) = "compile"
              /\ dec[p].ret.matched = dec[p].evals[i].pol.id
        /\ dec[p].ret.decision = "deny"

\* C3 (default deny): when both store reads succeeded the decision is allow or
\* deny, and it is allow only if a provider-layer candidate of effect allow had
\* a true predicate, for both values of fail_closed.
C3_DefaultDeny ==
    \A p \in DOMAIN dec :
        (dec[p].pc = "done" /\ ~dec[p].storeErr) =>
            /\ dec[p].ret.decision \in {"allow", "deny"}
            /\ dec[p].ret.decision = "allow" => TrueAllows(dec[p]) # {}

\* C4 (global gating), stated for the fail-closed engine, where no error path
\* returns allow: an allow decision has a matched policy, the matched policy
\* is not of scope global, and a policy that is not of scope global had a true
\* allow in the provider layer, whatever cloud and protocol the request names.
C4_GlobalGating ==
    \A p \in DOMAIN dec :
        (failClosed /\ dec[p].pc = "done" /\ dec[p].ret.decision = "allow") =>
            /\ dec[p].ret.matched # Nil
            /\ \A row \in db : row.id = dec[p].ret.matched => row.provider # "global"
            /\ \E i \in TrueAllows(dec[p]) : dec[p].evals[i].pol.provider # "global"

\* C6 (first allow wins), stated for the fail-closed engine: the matched policy
\* of an allow decision is the candidate of effect allow with a true predicate
\* that comes first in the sort order, so no other such candidate sorts before it.
C6_FirstAllowWins ==
    \A p \in DOMAIN dec :
        (failClosed /\ dec[p].pc = "done" /\ dec[p].ret.decision = "allow") =>
            /\ \E i \in TrueAllows(dec[p]) : dec[p].evals[i].pol.id = dec[p].ret.matched
            /\ \A i, j \in TrueAllows(dec[p]) :
                  dec[p].evals[i].pol.id = dec[p].ret.matched
                      => ~Less(dec[p].evals[j].pol, dec[p].evals[i].pol)

\* the calls of persistAudit made for the request goroutine p is serving
AuditsOf(p) == {i \in 1..Len(audits) : audits[i].who = p /\ audits[i].run = dec[p].runs}

C9_NeverRaises ==
    \A p \in DOMAIN dec :
        /\ dec[p].pc # "panic"
        /\ Returned(p) => dec[p].ret.decision \in {"allow", "deny"}

\* C10 (evaluation order): within each layer the candidates are evaluated in
\* the order priority ascending, specificity descending, created_at ascending,
\* identity ascending: no evaluation of a layer is followed, in that layer, by
\* the evaluation of a policy that sorts before it.
C10_EvaluationOrder ==
    \A p \in DOMAIN dec :
        \A i, j \in 1..Len(dec[p].evals) :
            (i < j /\ dec[p].evals[i].layer = dec[p].evals[j].layer)
                => ~Less(dec[p].evals[j].pol, dec[p].evals[i].pol)

\* C5 (cache coherence): once the handler of an update that changed the
\* expression of a policy has returned, every evaluation of that policy in a
\* decision that started later runs a program compiled from the new expression
\* (as long as no later write has changed the expression again).
C5_CacheCoherence ==
    \A p \in DOMAIN dec :
        \A i \in 1..Len(dec[p].evals) :
            (dec[p].evals[i].fence # NoProg /\ dec[p].evals[i].prog # NoProg)
                => dec[p].evals[i].prog = dec[p].evals[i].fence

\* C7 (write-time compile): the expression of every stored policy compiles
\* under the environment of the engine.
C7_WriteTimeCompile ==
    \A row \in db : Compiles(row.expr, EngineEnv)

\* C11 (ordering determinism): two decisions of the same request over the same
\* store, in both of which the store reads succeeded, return the same decision,
\* matched identity, reason and trace, in whatever orders the store listed the
\* candidates.
C11_OrderingDeterminism ==
    \A p, q \in DOMAIN dec :
        (/\ Returned(p) /\ Returned(q)
         /\ dec[p].req = dec[q].req
         /\ ~dec[p].storeErr /\ ~dec[q].storeErr)
            => /\ dec[p].ret.decision = dec[q].ret.decision
               /\ dec[p].ret.matched = dec[q].ret.matched
               /\ dec[p].ret.reason = dec[q].ret.reason
               /\ dec[p].ret.trace = dec[q].ret.trace

\* C12 (fail-open predicate errors): with fail_closed = false, in a decision
\* whose store reads succeeded, a candidate whose predicate fails to compile,
\* raises or returns a non-boolean is skipped: evaluate does not return the
\* error (the decision is made by the remaining candidates and layers) and the
\* erroring policy is not the matched policy.
C12_FailOpenSkip ==
    \A p \in DOMAIN dec :
        (~failClosed /\ Returned(p) /\ ~dec[p].storeErr) =>
            \A i \in 1..Len(dec[p].evals) :
                PredOutcome(dec[p].evals[i], dec[p].req) \in PredErrors
                    => /\ dec[p].ret.err = ""
                       /\ dec[p].ret.matched # dec[p].evals[i].pol.id

\* C13 (store error mapping): a decision in which a candidate read failed has
\* returned at that point, with deny and the store error as the reason when
\* fail_closed = true and with allow and the fail-open reason when
\* fail_closed = false, with no matched policy, and with a trace that has one
\* item for each candidate evaluated before the failure, in order.
C13_StoreErrorMapping ==
    \A p \in DOMAIN dec :
        dec[p].storeErr =>
            /\ Returned(p)
            /\ dec[p].ret.decision = (IF failClosed THEN "deny" ELSE "allow")
            /\ dec[p].ret.reason = (IF failClosed THEN Msg("database error: ")
                                                  ELSE Msg("database error (fail-open)"))
            /\ dec[p].ret.matched = Nil
            /\ dec[p].ret.err # ""
            /\ Len(dec[p].ret.trace) = Len(dec[p].evals)
            /\ \A i \in 1..Len(dec[p].evals) :
                  dec[p].ret.trace[i].policy_id = dec[p].evals[i].pol.id

\* the provider read of a fail-open decision has failed after the global layer
\* evaluated a candidate
C13_Witness ==
    \E p \in DOMAIN dec :
        /\ dec[p].pc = "done"
        /\ dec[p].storeErr
        /\ ~failClosed
        /\ dec[p].layer = "global"
        /\ Len(dec[p].evals) >= 1
        /\ dec[p].ret.decision = "allow"
        /\ Len(dec[p].ret.trace) = Len(dec[p].evals)

\* a deny fired in the global layer of decision d: a global policy of effect
\* deny had a true predicate, or the fail-closed engine treated a predicate
\* error as a deny match
GlobalDenyFired(d) ==
    \E i \in 1..Len(d.evals) :
        /\ d.evals[i].layer = "global"
        /\ \/ d.evals[i].pol.effect = "deny" /\ PredOutcome(d.evals[i], d.req) = "true"
           \/ failClosed /\ PredOutcome(d.evals[i], d.req) \in PredErrors

\* C14 (provider determination): the policies evaluated in the provider layer
\* are those of req.cloud when it is neither empty nor "none" and those of
\* req.protocol otherwise; a decision whose global read succeeded, in which no
\* global deny fired and whose provider is empty, is deny with the reason
\* "Access denied: no provider specified" and no matched policy, and no
\* provider read was made for it.
C14_ProviderDetermination ==
    \A p \in DOMAIN dec :
        LET d == dec[p]
            provider == IF d.req.cloud \notin {"", "none"} THEN d.req.cloud ELSE d.req.protocol
        IN /\ \A i \in 1..Len(d.evals) :
                 d.evals[i].layer = "provider" => d.evals[i].pol.provider = provider
           /\ (Returned(p) /\ d.layer # "" /\ provider = "" /\ ~GlobalDenyFired(d))
                 => /\ d.ret.decision = "deny"
                    /\ d.ret.reason = Msg("Access denied: no provider specified")
                    /\ d.ret.matched = Nil
                    /\ d.layer = "global"
                    /\ ~d.storeErr

\* the step is the commit of a successful update of the stored row old
Updates(old) == wr.pc = "idle" /\ wr'.pc = "update" /\ wr'.id = old.id

\* C15 (invalid expression on write): a create, or an update of a stored
\* policy, whose request carries an expression that fails validation is
\* answered with 400 and leaves the policy store and the predicate cache as
\* they were.
C15_InvalidRejected ==
    [][(/\ writes' = writes + 1
        /\ sent'.op \in {"create", "update"}
        /\ ~ValidateCEL(sent'.c.body.expr)
        /\ sent'.op = "update" => \E row \in db : row.id = sent'.id)
          => /\ resp'.status = 400
             /\ db' = db
             /\ cache' = cache]_vars

\* C16 (version monotonicity): every successful update of a policy leaves its
\* version one greater than it was and its updated_at later than it was.
C16_VersionMonotone ==
    [][\A old \in db :
          Updates(old) => \E new \in db' : /\ new.id = old.id
                                          /\ new.version = old.version + 1
                                          /\ new.updatedAt > old.updatedAt]_vars

\* C17 (recognized provider): the provider of every stored policy is one of
\* global, aws, gcp, ssh, rdp, database.
C17_RecognizedProvider ==
    \A row \in db : row.provider \in {"global", "aws", "gcp", "ssh", "rdp", "database"}

\* C18 (update frame): an update of a policy leaves its identity and its
\* created_at as they were and leaves every other stored policy as it was,
\* whatever the body carries; an update that is refused, and the rest of the
\* handler after the commit, change no stored policy.
C18_UpdateFrame ==
    [][/\ \A old \in db :
             Updates(old) => \E new \in db' : /\ new.id = old.id
                                             /\ new.createdAt = old.createdAt
                                             /\ db' \ {new} = db \ {old}
       /\ (sent'.op = "update" /\ writes' = writes + 1 /\ wr'.pc = "idle") => db' = db
       /\ wr.pc = "update" => db' = db]_vars

\* the update of one of two stored policies with a body that carries another
\* identity and created_at has returned
C18_Witness ==
    /\ sent.op = "update"
    /\ sent.c = WForeign
    /\ wr.pc = "idle"
    /\ resp.op = "update" /\ resp.status = 200
    /\ resp.id = sent.id
    /\ resp.id # sent.c.body.id
    /\ resp.row[1].name = sent.c.body.name
    /\ resp.row[1].createdAt # sent.c.body.createdAt
    /\ Cardinality(db) = 2

\* the fields of a policy that the server does not assign
ClientFields == {"name", "effect", "provider", "resource", "actions", "expr", "metadata",
                 "enabled", "priority"}

\* C19 (create/get round trip): the policy that get returns for the identity
\* of the create that was just accepted equals the body of that create in
\* name, effect, provider, resource, actions, expression, metadata, enabled
\* and priority, with or without a provider parameter.
C19_CreateGetRoundTrip ==
    (/\ resp.op = "get" /\ resp.status = 200
     /\ sent.op = "create" /\ sent.id = resp.id
     /\ sent.c.body.provider \in Recognized)
        => \A f \in ClientFields : resp.row[1][f] = sent.c.body[f]

\* a stored policy without its version and updated_at
Versionless(row) == [f \in DOMAIN row \ {"version", "updatedAt"} |-> row[f]]

\* C20 (update idempotence): when the update request that was just served for
\* a policy is made again, the policy store is left as the first application
\* left it, except for version and updated_at.
C20_UpdateIdempotent ==
    [][(writes' = writes + 1 /\ sent'.op = "update" /\ sent'.n >= 2)
          => {Versionless(row) : row \in db'} = {Versionless(row) : row \in db}]_vars

\* the same update request has been applied to a stored policy twice in a row
C20_Witness ==
    /\ sent.op = "update"
    /\ sent.n = 2
    /\ wr.pc = "idle"
    /\ resp.op = "update" /\ resp.status = 200 /\ resp.id = sent.id
    /\ \E row \in db : /\ row.id = sent.id
                       /\ row.name = sent.c.body.name
                       /\ row.actions = sent.c.body.actions
                       /\ row.actions # <<>>

\* C21 (invalidation idempotence): the Invalidate(id) that ends an update or a
\* delete leaves no cache entry for id and leaves the entries of all other
\* identities as they were; when id had no entry (it was invalidated before,
\* or never cached) the cache is unchanged.
C21_InvalidateIdempotent ==
    [][(wr.pc # "idle" /\ wr'.pc = "idle")
          => /\ ~CacheHas(cache', wr.id)
             /\ \A kv \in cache : kv[1] # wr.id => kv \in cache'
             /\ cache' \subseteq cache
             /\ ~CacheHas(cache, wr.id) => cache' = cache]_vars

\* the update of one of two cached policies has returned: its entry is gone
\* and the entry of the other policy is still there
C21_Witness ==
    /\ wr.pc = "idle"
    /\ resp.op = "update" /\ resp.status = 200
    /\ writes = 1
    /\ Cardinality(db) = 2
    /\ ~CacheHas(cache, resp.id)
    /\ \E kv \in cache : kv[1] # resp.id

\* row is a candidate of request req in the scope: it is enabled, of that
\* provider, its actions list is empty or holds the action of the request (or
\* the request has no action), and its pattern is empty, is * or matches the
\* resource of the request
InScope(row, scope, req) ==
    /\ row.enabled
    /\ row.provider = scope
    /\ row.actions = <<>> \/ req.action = "" \/ \E i \in 1..Len(row.actions) : row.actions[i] = req.action
    /\ row.resource = <<>> \/ row.resource = <<"*">> \/ GlobMatch(row.resource, req.resource)

\* the scope of the layer of decision d
ScopeOf(d, layer) ==
    IF layer = "global" THEN "global"
    ELSE IF d.req.cloud \notin {"", "none"} THEN d.req.cloud ELSE d.req.protocol

\* the evaluations of decision d in a layer, as a set of identities
EvaluatedIn(d, layer) == {d.evals[i].pol.id : i \in {j \in 1..Len(d.evals) : d.evals[j].layer = layer}}

\* the provider loop of decision d ran to its end
Completed(d) ==
    /\ d.pc \in {"audit", "done"}
    /\ ~d.storeErr
    /\ d.layer = "provider"
    /\ \/ d.ret.decision = "allow" /\ d.ret.err = ""
       \/ d.ret.decision = "deny" /\ d.ret.matched = Nil

\* C22 (candidate set): every policy evaluated in a layer is a stored policy
\* that is enabled, of the layer's scope, admits the request's action and
\* matches the request's resource; once a layer has run to its end, every such
\* stored policy has been evaluated in it; no trace item names a disabled policy.
C22_CandidateSet ==
    \A p \in DOMAIN dec :
        LET d == dec[p] IN
        /\ \A i \in 1..Len(d.evals) :
              /\ d.evals[i].pol \in db
              /\ InScope(d.evals[i].pol, ScopeOf(d, d.evals[i].layer), d.req)
        /\ \A i \in 1..Len(d.trace) :
              \E row \in db : row.id = d.trace[i].policy_id /\ row.enabled
        /\ d.layer = "provider"
              => EvaluatedIn(d, "global") = {row.id : row \in {r \in db : InScope(r, "global", d.req)}}
        /\ Completed(d)
              => EvaluatedIn(d, "provider") =
                    {row.id : row \in {r \in db : InScope(r, ScopeOf(d, "provider"), d.req)}}

\* both layers of a decision ran to their end over a store that holds a
\* disabled policy of the global scope, and some policy was evaluated
C22_Witness ==
    \E p \in DOMAIN dec :
        /\ Completed(dec[p])
        /\ dec[p].evals # <<>>
        /\ \E row \in db : ~row.enabled /\ row.provider = "global" /\ row.resource = <<"*">>

\* the number of * and ? characters of a pattern
WildcardCount(pattern) == Cardinality({i \in 1..Len(pattern) : pattern[i] \in {"*", "?"}})

\* C23 (specificity): the score of every stored pattern is its length minus
\* ten times the number of its * and ? characters, and of two candidates of
\* equal priority evaluated in a layer, the one evaluated first does not have
\* the lower score.
C23_Specificity ==
    /\ \A row \in db :
          computeSpecificity(row.resource) = Len(row.resource) - 10 * WildcardCount(row.resource)
    /\ \A p \in DOMAIN dec :
          \A i, j \in 1..Len(dec[p].evals) :
              (/\ i < j
               /\ dec[p].evals[i].layer = dec[p].evals[j].layer
               /\ dec[p].evals[i].pol.priority = dec[p].evals[j].pol.priority)
                  => Len(dec[p].evals[i].pol.resource) - 10 * WildcardCount(dec[p].evals[i].pol.resource)
                        >= Len(dec[p].evals[j].pol.resource) - 10 * WildcardCount(dec[p].evals[j].pol.resource)

\* the value of a metadata key when it is present and not empty, else the default
MetadataText(pol, key, default) ==
    IF \E kv \in pol.metadata : kv[1] = key /\ kv[2] # ""
    THEN Msg((CHOOSE kv \in pol.metadata : kv[1] = key /\ kv[2] # "")[2])
    ELSE default

C25_AuditSwallowed ==
    [][Len(audits') = Len(audits) + 1
          => LET a == audits'[Len(audits')] IN
             /\ dec[a.who].pc = "audit"
             /\ dec'[a.who].pc = "done"
             /\ dec'[a.who].ret = dec[a.who].ret
             /\ \A q \in DOMAIN dec \ {a.who} : dec'[q] = dec[q]]_vars

\* a call whose audit insert failed has returned an allow
C25_Witness ==
    \E p \in DOMAIN dec :
        /\ dec[p].pc = "done"
        /\ dec[p].ret.decision = "allow"
        /\ dec[p].ret.matched # Nil
        /\ \E i \in AuditsOf(p) : ~audits[i].stored

\* C26 (no stale mix): no decision evaluates a stored value of a policy with a
\* program compiled from another expression than the one of that value.
C26_NoStaleMix ==
    \A p \in DOMAIN dec :
        \A i \in 1..Len(dec[p].evals) :
            dec[p].evals[i].prog # NoProg
                => dec[p].evals[i].prog = dec[p].evals[i].pol.expr

\* C30 (eviction on delete): when no handler and no decision is running, the
\* predicate cache holds no entry for the identity of a policy that is no
\* longer stored.
C30_EvictionOnDelete ==
    (wr.pc = "idle" /\ \A p \in DOMAIN dec : dec[p].pc \in {"idle", "done"})
        => \A kv \in cache : \E row \in db : row.id = kv[1]

\* C29 (matched consistent with the decision): an allow with a matched policy
\* names an enabled candidate of the provider layer with effect allow whose
\* predicate was true; a deny with a matched policy and no predicate error
\* names a policy with effect deny whose predicate was true.
C29_MatchedConsistent ==
    \A p \in DOMAIN dec :
        Returned(p) =>
            LET d == dec[p] IN
            /\ (d.ret.decision = "allow" /\ d.ret.matched # Nil)
                  => \E i \in 1..Len(d.evals) :
                        /\ d.evals[i].pol.id = d.ret.matched
                        /\ d.evals[i].layer = "provider"
                        /\ d.evals[i].pol.enabled
                        /\ d.evals[i].pol.effect = "allow"
                        /\ PredOutcome(d.evals[i], d.req) = "true"
            /\ (d.ret.decision = "deny" /\ d.ret.matched # Nil 
                /\ \A i \in 1..Len(d.evals) : PredOutcome(d.evals[i], d.req) \notin PredErrors)
                  => \E i \in 1..Len(d.evals) :
                        /\ d.evals[i].pol.id = d.ret.matched
                        /\ d.evals[i].pol.effect = "deny"
                        /\ PredOutcome(d.evals[i], d.req) = "true"

\* the evaluations of decision d in which a policy of effect deny had a true predicate
FiredDenies(d) ==
    {i \in 1..Len(d.evals) :
        /\ d.evals[i].pol.effect = "deny"
        /\ PredOutcome(d.evals[i], d.req) = "true"}

\* C27 (early termination and trace): the returned trace holds one item for
\* each evaluated candidate, in the order of evaluation, global items before
\* provider items; a deny that fires is the last evaluation, it is the
\* decision and its matched policy, and no later layer is read; after a true
\* allow in the provider layer the loop goes on, so the decision ends only by
\* a deny, by an error, or when every candidate of the provider was evaluated.
C27_EarlyTermination ==
    \A p \in DOMAIN dec :
        Returned(p) =>
            LET d == dec[p]
                n == Len(d.evals)
            IN
            /\ Len(d.ret.trace) = n
            /\ \A i \in 1..n : /\ d.ret.trace[i].policy_id = d.evals[i].pol.id
                               /\ d.ret.trace[i].effect = d.evals[i].pol.effect
            /\ \A i, j \in 1..n : i < j => ~(d.evals[i].layer = "provider" /\ d.evals[j].layer = "global")
            /\ \A i \in FiredDenies(d) :
                  /\ i = n
                  /\ d.ret.decision = "deny"
                  /\ d.ret.matched = d.evals[i].pol.id
                  /\ d.layer = d.evals[i].layer
                  /\ ~d.storeErr
            /\ TrueAllows(d) # {}
                  => \/ n \in FiredDenies(d)
                     \/ PredOutcome(d.evals[n], d.req) \in PredErrors
                     \/ /\ d.ret.decision = "allow"
                        /\ EvaluatedIn(d, "provider") =
                              {row.id : row \in {r \in db : InScope(r, ScopeOf(d, "provider"), d.req)}}

\* a true allow of the provider layer was followed by the evaluation of a deny
\* that fired and ended the decision
C27_Witness ==
    \E p \in DOMAIN dec :
        /\ dec[p].pc = "done"
        /\ \E i \in TrueAllows(dec[p]) : \E j \in FiredDenies(dec[p]) :
              /\ i < j
              /\ j = Len(dec[p].ret.trace)
              /\ dec[p].ret.trace[i].result = "true"

\* a loop of evaluate run alone from the state d of a goroutine: every
\* candidate is compiled from its own expression
RECURSIVE WalkAlone(_)
WalkAlone(d) ==
    IF d.pc \notin {"global", "provider"} \/ d.cands = <<>> THEN d
    ELSE LET pol == Head(d.cands)
             ok == Compiles(pol.expr, EngineEnv)
         IN IF d.layer = "global" /\ ~resourceMatch(pol.resource, d.req.resource)
            THEN WalkAlone([d EXCEPT !.cands = Tail(@)])
            ELSE WalkAlone(Outcome(d, evaluatePolicy(pol, d.req,
                                                     Compiled(ok, IF ok THEN pol.expr ELSE NoProg),
                                                     failClosed)))

\* what evaluate can return for req when it runs alone over the store and
\* both store reads succeed
AloneRets(req) ==
    LET start == [IdleDec EXCEPT !.req = req]
        provider == Provider(req)
        kept == {row \in loadPolicies(db, provider, req.action) :
                    resourceMatch(row.resource, req.resource)}
        ProviderRets(g) ==
            IF g.pc = "audit" THEN {g.ret}
            ELSE IF provider = ""
                 THEN {Ret("deny", Nil, Msg("Access denied: no provider specified"), g.trace, "")}
            ELSE {LET w == WalkAlone([g EXCEPT !.pc = "provider", !.layer = "provider",
                                               !.cands = sorted])
                  IN IF w.pc = "audit" THEN w.ret ELSE FinalOutcome(w) :
                     sorted \in SortedOrders(kept)}
    IN UNION {ProviderRets(WalkAlone([start EXCEPT !.pc = "global", !.layer = "global",
                                                   !.cands = order])) :
              order \in Orderings(loadPolicies(db, "global", req.action))}

\* C28 (benign compile race): while no handler modifies the store, every
\* decision of two concurrent goroutines whose store reads succeeded returns a
\* decision, matched identity and trace that its request returns when run
\* alone, and every cache entry is the program compiled from the stored
\* expression of the policy of its identity.
C28_BenignCompileRace ==
    /\ \A p \in DOMAIN dec :
          (Returned(p) /\ ~dec[p].storeErr)
              => \E r \in AloneRets(dec[p].req) :
                    /\ r.decision = dec[p].ret.decision
                    /\ r.matched = dec[p].ret.matched
                    /\ r.trace = dec[p].ret.trace
    /\ \A kv \in cache :
          \E row \in db : /\ row.id = kv[1]
                          /\ Compiles(row.expr, EngineEnv)
                          /\ kv[2] = row.expr

\* goroutine 2 missed the cache on an identity and has not yet compiled, while
\* goroutine 1, which missed on the same identity, has stored its program and
\* returned with a policy matched
C28_Witness ==
    /\ dec[1].pc = "done"
    /\ dec[1].ret.matched # Nil
    /\ dec[2].pc = "compile"
    /\ CacheHas(cache, Head(dec[2].cands).id)
    /\ \E i \in 1..Len(dec[1].evals) : dec[1].evals[i].pol.id = Head(dec[2].cands).id

====
